---------------------------- MODULE Spec2Model ----------------------------
(***************************************************************************)
(* bigclock (Flipper Zero application, src/bigclock.c).                    *)
(*                                                                         *)
(* The canvas is modelled as the sequence of drawing calls made on it      *)
(* since the GUI cleared it: one record per canvas_draw_box,               *)
(* canvas_draw_frame, canvas_draw_str and canvas_set_font call.            *)
(***************************************************************************)
EXTENDS Integers, Sequences, FiniteSets

VARIABLES
    pc,         \* position of the bigclock_app thread
    q,          \* app.q: "null", "alloc" or "freed"
    queue,      \* content of the message queue app.q
    vp,         \* app.vp: "null", "alloc", "added", "removed", "freed"
    gui,        \* RECORD_GUI is open
    notif,      \* RECORD_NOTIFICATION is open
    backlight,  \* "auto" or "enforce_on"
    display,    \* "default", "override" or "reset"
    timer,      \* app.timer: "null", "stopped", "running", "freed"
    redraw,     \* view_port_update was called and draw_cb has not run yet
    event,      \* the local `event` of bigclock_app
    retval,     \* what bigclock_app returned
    uaf,        \* a callback used a freed view port, queue or timer
    rtc,        \* what furi_hal_rtc_get_datetime returns
    canvas_w,   \* the canvas width the layout is computed for
    call,       \* the arguments of a direct segdigit call
    frame       \* the drawing calls of the last draw

vars == <<pc, q, queue, vp, gui, notif, backlight, display, timer, redraw,
          event, retval, uaf, rtc, canvas_w, call, frame>>

(***************************************************************************)
(* Canvas primitives (gui/canvas.h): each appends the call to the canvas.  *)
(***************************************************************************)
canvas_draw_box(c, x, y, w, h) ==
    Append(c, [op |-> "box", x |-> x, y |-> y, w |-> w, h |-> h, s |-> ""])

canvas_draw_frame(c, x, y, w, h) ==
    Append(c, [op |-> "frame", x |-> x, y |-> y, w |-> w, h |-> h, s |-> ""])

canvas_draw_str(c, x, y, str) ==
    Append(c, [op |-> "str", x |-> x, y |-> y, w |-> 0, h |-> 0, s |-> str])

canvas_set_font(c, font) ==
    Append(c, [op |-> "font", x |-> 0, y |-> 0, w |-> 0, h |-> 0, s |-> font])

(***************************************************************************)
(* 7-segment digits.  segmap[d + 1] is the C segmap[d]; bit 0 = a (top),   *)
(* 1 = b (upper-right), 2 = c (lower-right), 3 = d (bottom),               *)
(* 4 = e (lower-left), 5 = f (upper-left), 6 = g (middle).                 *)
(***************************************************************************)
segmap == << 63,   \* 0  0b0111111
             6,    \* 1  0b0000110
             91,   \* 2  0b1011011
             79,   \* 3  0b1001111
             102,  \* 4  0b1100110
             109,  \* 5  0b1101101
             125,  \* 6  0b1111101
             7,    \* 7  0b0000111
             127,  \* 8  0b1111111
             111   \* 9  0b1101111
          >>

\* m & (1 << i)
BitSet(m, i) == (m \div (2 ^ i)) % 2 = 1

\* if(cond) draw
DrawIf(cond, c, drawn) == IF cond THEN drawn ELSE c

\* a variant of segdigit: the lower vertical segments start a row too low
segdigit_shifted(c, x, y, w, h, t, d) ==
    IF d < 0 \/ d > 9 THEN c
    ELSE LET m    == segmap[d + 1]
             ym   == y + (h \div 2)
             half == h \div 2
             c1 == DrawIf(BitSet(m, 0), c,  canvas_draw_box(c,  x, y, w, t))
             c2 == DrawIf(BitSet(m, 6), c1, canvas_draw_box(c1, x, ym - (t \div 2), w, t))
             c3 == DrawIf(BitSet(m, 3), c2, canvas_draw_box(c2, x, y + h - t, w, t))
             c4 == DrawIf(BitSet(m, 5), c3, canvas_draw_box(c3, x, y, t, half))
             c5 == DrawIf(BitSet(m, 1), c4, canvas_draw_box(c4, x + w - t, y, t, half))
             c6 == DrawIf(BitSet(m, 4), c5, canvas_draw_box(c5, x, y + h - half + 1, t, half))
             c7 == DrawIf(BitSet(m, 2), c6, canvas_draw_box(c6, x + w - t, y + h - half + 1, t, half))
         IN  c7

\* a variant of segdigit without the range check: all segments lit instead
segdigit_norange(c, x, y, w, h, t, d) ==
    LET m    == IF d < 0 \/ d > 9 THEN 127 ELSE segmap[d + 1]
        ym   == y + (h \div 2)
        half == h \div 2
        c1 == DrawIf(BitSet(m, 0), c,  canvas_draw_box(c,  x, y, w, t))
        c2 == DrawIf(BitSet(m, 6), c1, canvas_draw_box(c1, x, ym - (t \div 2), w, t))
        c3 == DrawIf(BitSet(m, 3), c2, canvas_draw_box(c2, x, y + h - t, w, t))
        c4 == DrawIf(BitSet(m, 5), c3, canvas_draw_box(c3, x, y, t, half))
        c5 == DrawIf(BitSet(m, 1), c4, canvas_draw_box(c4, x + w - t, y, t, half))
        c6 == DrawIf(BitSet(m, 4), c5, canvas_draw_box(c5, x, y + h - half, t, half))
        c7 == DrawIf(BitSet(m, 2), c6, canvas_draw_box(c6, x + w - t, y + h - half, t, half))
    IN  c7

segdigit(c, x, y, w, h, t, d) ==
    IF d < 0 \/ d > 9 THEN c
    ELSE LET m    == segmap[d + 1]
             ym   == y + (h \div 2)
             half == h \div 2
             \* horizontal segments a, g, d
             c1 == DrawIf(BitSet(m, 0), c,  canvas_draw_box(c,  x, y, w, t))
             c2 == DrawIf(BitSet(m, 6), c1, canvas_draw_box(c1, x, ym - (t \div 2), w, t))
             c3 == DrawIf(BitSet(m, 3), c2, canvas_draw_box(c2, x, y + h - t, w, t))
             \* vertical segments f, b, e, c
             c4 == DrawIf(BitSet(m, 5), c3, canvas_draw_box(c3, x, y, t, half))
             c5 == DrawIf(BitSet(m, 1), c4, canvas_draw_box(c4, x + w - t, y, t, half))
             c6 == DrawIf(BitSet(m, 4), c5, canvas_draw_box(c5, x, y + h - half, t, half))
             c7 == DrawIf(BitSet(m, 2), c6, canvas_draw_box(c6, x + w - t, y + h - half, t, half))
         IN  c7

draw_colon(c, x, y, t) ==
    canvas_draw_box(canvas_draw_box(c, x, y + 16, t, t), x, y + 40, t, t)

(***************************************************************************)
(* draw_cb: the values it derives from the DateTime tm it reads.           *)
(***************************************************************************)
H24(tm) == tm.hour
M(tm)   == tm.minute

\* a variant of H12 without the 0 -> 12 step
H12_mod_only(tm) == H24(tm) % 12

\* 12-hour clock: 0 -> 12, 13 -> 1, etc.
H12(tm) == IF H24(tm) % 12 = 0 THEN 12 ELSE H24(tm) % 12

ht_raw(tm) == H12(tm) \div 10

\* a variant of ht that keeps the leading zero
ht_zero(tm) == ht_raw(tm)

\* Hours tens digit is blank for 1..9, then 1 for 10..12.
ht(tm) == IF ht_raw(tm) = 0 THEN -1 ELSE ht_raw(tm)
ho(tm) == H12(tm) % 10
mt(tm) == M(tm) \div 10
mo(tm) == M(tm) % 10

(***************************************************************************)
(* draw_cb: layout constants.                                              *)
(***************************************************************************)
\* the canvas width in right_edge = 128 - 2 - bar_area_w
CanvasW == 128

y == 2
h == 60
t == 7

bar_area_w == 12
right_edge(cwid) == cwid - 2 - bar_area_w

\* a variant of w: digits two pixels wider
w_wide == 23 + 2

w == 23
gap == 3
colon_w == 6
colon_gap == 2

x0 == 2

xH0 == x0
xH1 == xH0 + w + gap
cx  == xH1 + w + colon_gap
xM0 == cx + colon_w + colon_gap
xM1 == xM0 + w + gap

\* a variant of fits that forgets the gutter
fits_off_by_gutter(cwid) == xM1 + w <= cwid

\* the defensive guard of draw_cb
fits(cwid) == xM1 + w <= right_edge(cwid)

steps == 5

\* a variant of count without the clamp
count_unclamped(tm) == tm.second \div 10

count(tm) == IF tm.second \div 10 > steps THEN steps ELSE tm.second \div 10

bar_w == 6
bar_h == 8
bar_gap == 1

bx(cwid) == right_edge(cwid) + ((bar_area_w - bar_w) \div 2)
by == 2

\* a variant of is_pm with > for >=
is_pm_after_noon(tm) == tm.hour > 12

is_pm(tm) == tm.hour >= 12
is_am(tm) == ~is_pm(tm)

col_h == (steps * bar_h) + ((steps - 1) * bar_gap)
ap_x(cwid) == right_edge(cwid) + 1
ap_y0 == by + col_h + 2

\* for(int i = 0; i < count; i++) canvas_draw_frame(...)
RECURSIVE progress_loop(_, _, _, _)
progress_loop(c, i, n, cwid) ==
    IF i < n
    THEN progress_loop(
             canvas_draw_frame(c, bx(cwid), by + i * (bar_h + bar_gap), bar_w, bar_h),
             i + 1, n, cwid)
    ELSE c

draw_cb(canvas, tm, cwid) ==
    LET c1 == IF fits(cwid)
              THEN LET d1 == segdigit(canvas, xH0, y, w, h, t, ht(tm))
                       d2 == segdigit(d1, xH1, y, w, h, t, ho(tm))
                       d3 == draw_colon(d2, cx, y, colon_w)
                       d4 == segdigit(d3, xM0, y, w, h, t, mt(tm))
                       d5 == segdigit(d4, xM1, y, w, h, t, mo(tm))
                   IN  d5
              ELSE canvas_draw_box(canvas, 0, 0, 3, 3)
        c2 == progress_loop(c1, 0, count(tm), cwid)
        c3 == canvas_set_font(c2, "FontKeyboard")
        c4 == DrawIf(is_am(tm), c3, canvas_draw_str(c3, ap_x(cwid), ap_y0 + 7, "AM"))
        c5 == DrawIf(is_pm(tm), c4, canvas_draw_str(c4, ap_x(cwid), ap_y0 + 15, "PM"))
        c6 == canvas_set_font(c5, "FontPrimary")
    IN  c6

(***************************************************************************)
(* Inputs.                                                                 *)
(***************************************************************************)
\* DateTime as furi_hal_rtc_get_datetime fills it
Hours   == 0 .. 23
Minutes == 0 .. 59
Seconds == 0 .. 59
DateTimes == [hour : Hours, minute : Minutes, second : Seconds]

Time(hh, mm, ss) == [hour |-> hh, minute |-> mm, second |-> ss]

\* the RTC a second later
AddSecond(tm) ==
    IF tm.second < 59 THEN [tm EXCEPT !.second = @ + 1]
    ELSE IF tm.minute < 59 THEN [tm EXCEPT !.second = 0, !.minute = @ + 1]
    ELSE Time((tm.hour + 1) % 24, 0, 0)

SecondOfDay(tm) == (tm.hour * 60 + tm.minute) * 60 + tm.second

\* the times at which the application is started
SampleTimes == { Time(9, 59, 59), Time(23, 59, 59) }

\* the times the layout is drawn for
LayoutTimes == SampleTimes \cup { Time(0, 0, 0), Time(9, 5, 37), Time(15, 47, 52) }

\* InputEvent: key and type (input/input.h)
InputKeys  == { "InputKeyBack", "InputKeyOk" }
InputTypes == { "InputTypePress", "InputTypeRelease", "InputTypeShort",
                "InputTypeLong", "InputTypeRepeat" }
InputEvents == [key : InputKeys, type : InputTypes]

NoEvent == [key |-> "none", type |-> "none"]
NoCall  == [x |-> 0, d |-> 0, made |-> FALSE]

\* furi_message_queue_alloc(8, sizeof(InputEvent))
QueueCap == 8

\* the model lets at most MaxQueue events wait in the queue
MaxQueue == 2
\* the model follows the application for MaxSeconds seconds of the RTC
MaxSeconds == 1

\* canvas widths of the layout specification: CanvasW - MaxShrink .. CanvasW
MaxShrink == 16
\* digits handed to segdigit directly: -MaxDigit + 9 .. MaxDigit
MaxDigit == 11

(***************************************************************************)
(* bigclock_app, one action per statement.                                 *)
(***************************************************************************)
Init ==
    /\ pc = "queue_alloc"
    /\ q = "null"
    /\ queue = <<>>
    /\ vp = "null"
    /\ gui = FALSE
    /\ notif = FALSE
    /\ backlight = "auto"
    /\ display = "default"
    /\ timer = "null"
    /\ redraw = FALSE
    /\ event = NoEvent
    /\ retval = -1
    /\ uaf = FALSE
    /\ rtc \in SampleTimes
    /\ canvas_w = CanvasW
    /\ call = NoCall
    /\ frame = <<>>

\* app.q = furi_message_queue_alloc(8, sizeof(InputEvent));
QueueAlloc ==
    /\ pc = "queue_alloc"
    /\ q' = "alloc"
    /\ queue' = <<>>
    /\ pc' = "view_port_alloc"
    /\ UNCHANGED <<vp, gui, notif, backlight, display, timer, redraw, event,
                   retval, uaf, rtc, canvas_w, call, frame>>

\* app.vp = view_port_alloc(); and the two callback setters
ViewPortAlloc ==
    /\ pc = "view_port_alloc"
    /\ vp' = "alloc"
    /\ pc' = "gui_add_view_port"
    /\ UNCHANGED <<q, queue, gui, notif, backlight, display, timer, redraw,
                   event, retval, uaf, rtc, canvas_w, call, frame>>

\* gui = furi_record_open(RECORD_GUI); gui_add_view_port(gui, app.vp, ...);
\* the GUI repaints when a view port is added
GuiAddViewPort ==
    /\ pc = "gui_add_view_port"
    /\ gui' = TRUE
    /\ vp' = "added"
    /\ redraw' = TRUE
    /\ pc' = "backlight_on"
    /\ UNCHANGED <<q, queue, notif, backlight, display, timer, event, retval,
                   uaf, rtc, canvas_w, call, frame>>

\* app.notif = furi_record_open(RECORD_NOTIFICATION);
\* notification_message(app.notif, &sequence_display_backlight_enforce_on);
BacklightOn ==
    /\ pc = "backlight_on"
    /\ notif' = TRUE
    /\ backlight' = "enforce_on"
    /\ display' = "override"
    /\ pc' = "timer_alloc"
    /\ UNCHANGED <<q, queue, vp, gui, timer, redraw, event, retval, uaf, rtc,
                   canvas_w, call, frame>>

\* app.timer = furi_timer_alloc(tick_cb, FuriTimerTypePeriodic, app.vp);
TimerAlloc ==
    /\ pc = "timer_alloc"
    /\ timer' = "stopped"
    /\ pc' = "timer_start"
    /\ UNCHANGED <<q, queue, vp, gui, notif, backlight, display, redraw, event,
                   retval, uaf, rtc, canvas_w, call, frame>>

\* furi_timer_start(app.timer, furi_ms_to_ticks(1000));
TimerStart ==
    /\ pc = "timer_start"
    /\ timer' = "running"
    /\ pc' = "loop"
    /\ UNCHANGED <<q, queue, vp, gui, notif, backlight, display, redraw, event,
                   retval, uaf, rtc, canvas_w, call, frame>>

\* event.type == InputTypeShort && event.key == InputKeyBack
\* a variant of IsExit that forgets the event type
IsExit_any_back(ev) == ev.key = "InputKeyBack"

IsExit(ev) == ev.type = "InputTypeShort" /\ ev.key = "InputKeyBack"

\* one pass of while(true): furi_message_queue_get blocks on an empty queue
MainLoop ==
    /\ pc = "loop"
    /\ queue # <<>>
    /\ event' = Head(queue)
    /\ queue' = Tail(queue)
    /\ pc' = IF IsExit(Head(queue)) THEN "timer_stop" ELSE "loop"
    /\ UNCHANGED <<q, vp, gui, notif, backlight, display, timer, redraw,
                   retval, uaf, rtc, canvas_w, call, frame>>

\* furi_timer_stop(app.timer);
TimerStop ==
    /\ pc = "timer_stop"
    /\ timer' = "stopped"
    /\ pc' = "timer_free"
    /\ UNCHANGED <<q, queue, vp, gui, notif, backlight, display, redraw, event,
                   retval, uaf, rtc, canvas_w, call, frame>>

\* furi_timer_free(app.timer);
TimerFree ==
    /\ pc = "timer_free"
    /\ timer' = "freed"
    /\ pc' = "gui_remove_view_port"
    /\ UNCHANGED <<q, queue, vp, gui, notif, backlight, display, redraw, event,
                   retval, uaf, rtc, canvas_w, call, frame>>

\* gui_remove_view_port(gui, app.vp);
GuiRemoveViewPort ==
    /\ pc = "gui_remove_view_port"
    /\ vp' = "removed"
    /\ redraw' = FALSE
    /\ pc' = "view_port_free"
    /\ UNCHANGED <<q, queue, gui, notif, backlight, display, timer, event,
                   retval, uaf, rtc, canvas_w, call, frame>>

\* view_port_free(app.vp);
ViewPortFree ==
    /\ pc = "view_port_free"
    /\ vp' = "freed"
    /\ pc' = "gui_close"
    /\ UNCHANGED <<q, queue, gui, notif, backlight, display, timer, redraw,
                   event, retval, uaf, rtc, canvas_w, call, frame>>

\* furi_record_close(RECORD_GUI);
GuiClose ==
    /\ pc = "gui_close"
    /\ gui' = FALSE
    /\ pc' = "queue_free"
    /\ UNCHANGED <<q, queue, vp, notif, backlight, display, timer, redraw,
                   event, retval, uaf, rtc, canvas_w, call, frame>>

\* furi_message_queue_free(app.q);
QueueFree ==
    /\ pc = "queue_free"
    /\ q' = "freed"
    /\ queue' = <<>>
    /\ pc' = "backlight_auto"
    /\ UNCHANGED <<vp, gui, notif, backlight, display, timer, redraw, event,
                   retval, uaf, rtc, canvas_w, call, frame>>

\* notification_message(app.notif, &sequence_display_backlight_enforce_auto);
BacklightAuto ==
    /\ pc = "backlight_auto"
    /\ backlight' = "auto"
    /\ pc' = "reset_display"
    /\ UNCHANGED <<q, queue, vp, gui, notif, display, timer, redraw, event,
                   retval, uaf, rtc, canvas_w, call, frame>>

\* notification_message(app.notif, &sequence_reset_display);
ResetDisplay ==
    /\ pc = "reset_display"
    /\ display' = "reset"
    /\ pc' = "notification_close"
    /\ UNCHANGED <<q, queue, vp, gui, notif, backlight, timer, redraw, event,
                   retval, uaf, rtc, canvas_w, call, frame>>

\* furi_record_close(RECORD_NOTIFICATION); return 0;
NotificationClose ==
    /\ pc = "notification_close"
    /\ notif' = FALSE
    /\ retval' = 0
    /\ pc' = "done"
    /\ UNCHANGED <<q, queue, vp, gui, backlight, display, timer, redraw, event,
                   uaf, rtc, canvas_w, call, frame>>

(***************************************************************************)
(* The callbacks, which run in the GUI and timer contexts.                 *)
(***************************************************************************)
\* input_cb: furi_message_queue_put(app->q, event, FuriWaitForever) blocks
\* while the queue is full; the GUI delivers input to an added view port only
InputCb ==
    /\ vp = "added"
    /\ Len(queue) < QueueCap
    /\ Len(queue) < MaxQueue
    /\ \E ev \in InputEvents :
          /\ queue' = IF q = "alloc" THEN Append(queue, ev) ELSE queue
          /\ uaf' = (uaf \/ q # "alloc")
    /\ UNCHANGED <<pc, q, vp, gui, notif, backlight, display, timer, redraw,
                   event, retval, rtc, canvas_w, call, frame>>

\* a periodic timer stays armed after it fires, a one-shot timer does not
TimerType == "FuriTimerTypePeriodic"

\* a variant of TimerAfterFiring: FuriTimerTypeOnce
TimerAfterFiring_once == "stopped"

TimerAfterFiring ==
    IF TimerType = "FuriTimerTypePeriodic" THEN "running" ELSE "stopped"

\* tick_cb: view_port_update(vp) asks the GUI to repaint an added view port
TickCb ==
    /\ timer = "running"
    /\ timer' = TimerAfterFiring
    /\ redraw' = (redraw \/ vp = "added")
    /\ uaf' = (uaf \/ vp = "freed")
    /\ UNCHANGED <<pc, q, queue, vp, gui, notif, backlight, display, event,
                   retval, rtc, canvas_w, call, frame>>

\* draw_cb, called by the GUI on a cleared canvas when a repaint is due
DrawCb ==
    /\ vp = "added"
    /\ redraw
    /\ redraw' = FALSE
    /\ frame' = draw_cb(<<>>, rtc, canvas_w)
    /\ UNCHANGED <<pc, q, queue, vp, gui, notif, backlight, display, timer,
                   event, retval, uaf, rtc, canvas_w, call>>

\* the RTC counts a second
RtcSecond ==
    /\ \E t0 \in SampleTimes :
          (SecondOfDay(rtc) - SecondOfDay(t0)) % (24 * 60 * 60) < MaxSeconds
    /\ rtc' = AddSecond(rtc)
    /\ UNCHANGED <<pc, q, queue, vp, gui, notif, backlight, display, timer,
                   redraw, event, retval, uaf, canvas_w, call, frame>>

Next ==
    \/ QueueAlloc \/ ViewPortAlloc \/ GuiAddViewPort \/ BacklightOn
    \/ TimerAlloc \/ TimerStart \/ MainLoop
    \/ TimerStop \/ TimerFree \/ GuiRemoveViewPort \/ ViewPortFree
    \/ GuiClose \/ QueueFree \/ BacklightAuto \/ ResetDisplay
    \/ NotificationClose
    \/ InputCb \/ TickCb \/ DrawCb
    \/ RtcSecond

Spec == Init /\ [][Next]_vars

(***************************************************************************)
(* The application once it runs its loop, for the claims about one frame.  *)
(***************************************************************************)
Running ==
    /\ pc = "loop"
    /\ q = "alloc"
    /\ queue = <<>>
    /\ vp = "added"
    /\ gui = TRUE
    /\ notif = TRUE
    /\ backlight = "enforce_on"
    /\ display = "override"
    /\ timer = "running"
    /\ redraw = TRUE
    /\ event = NoEvent
    /\ retval = -1
    /\ uaf = FALSE
    /\ frame = <<>>

\* every time of day, on the shipped canvas
InitDraw == Running /\ rtc \in DateTimes /\ canvas_w = CanvasW /\ call = NoCall

NextDraw == TickCb \/ DrawCb

SpecDraw == InitDraw /\ [][NextDraw]_vars

\* the layout computed for narrower canvases too
Widths == (CanvasW - MaxShrink) .. CanvasW

InitLayout ==
    Running /\ rtc \in LayoutTimes /\ canvas_w \in Widths /\ call = NoCall

SpecLayout == InitLayout /\ [][NextDraw]_vars

(***************************************************************************)
(* segdigit called directly, with the geometry draw_cb uses.               *)
(***************************************************************************)
DigitArgs == (9 - MaxDigit) .. MaxDigit
DigitXs   == { xH0, xH1, xM0, xM1 }

InitDigit ==
    /\ Running
    /\ rtc = Time(0, 0, 0)
    /\ canvas_w = CanvasW
    /\ \E xx \in DigitXs, dd \in DigitArgs :
          call = [x |-> xx, d |-> dd, made |-> FALSE]

\* segdigit(canvas, x, y, w, h, t, d) on a cleared canvas
SegDigitCall ==
    /\ ~call.made
    /\ call' = [call EXCEPT !.made = TRUE]
    /\ frame' = segdigit(<<>>, call.x, y, w, h, t, call.d)
    /\ UNCHANGED <<pc, q, queue, vp, gui, notif, backlight, display, timer,
                   redraw, event, retval, uaf, rtc, canvas_w>>

SpecDigit == InitDigit /\ [][SegDigitCall]_vars

(***************************************************************************)
(* Reading a frame.                                                        *)
(***************************************************************************)
Drawn == frame # <<>>

OpsOf(kind) == SelectSeq(frame, LAMBDA r : r.op = kind)

Boxes  == OpsOf("box")
Cells  == OpsOf("frame")
Labels == OpsOf("str")

Box(bx0, by0, bw, bh) ==
    [op |-> "box", x |-> bx0, y |-> by0, w |-> bw, h |-> bh, s |-> ""]

Marker == Box(0, 0, 3, 3)

Range(sq) == { sq[i] : i \in DOMAIN sq }

\* the filled rectangles of the frame that start inside the digit field at xx
BoxesAt(xx) == SelectSeq(frame, LAMBDA r : r.op = "box" /\ r.x >= xx /\ r.x < xx + 23)

\* the field at xx holds exactly the drawing of digit d (-1: blank)
Shows(xx, d) == BoxesAt(xx) = segdigit(<<>>, xx, 2, 23, 60, 7, d)

\* no two of blank, 0, ..., 9 have the same drawing, so a field shows one digit
DrawingsDiffer ==
    \A d1 \in -1 .. 9 : \A d2 \in -1 .. 9 :
        d1 # d2 => segdigit(<<>>, 0, 2, 23, 60, 7, d1) # segdigit(<<>>, 0, 2, 23, 60, 7, d2)

BlankHours == (1 .. 9) \cup (13 .. 21)
OneHours   == {0, 10, 11, 12, 22, 23}

(***************************************************************************)
(* C1: in every frame drawn by draw_cb exactly one of the labels "AM" and  *)
(* "PM" is drawn: "PM" iff hour24 >= 12, "AM" iff hour24 < 12, and the two *)
(* labels have different y positions (AM at 55, PM at 63).                 *)
(***************************************************************************)
C1_OneMeridiemLabel ==
    Drawn =>
        /\ Len(Labels) = 1
        /\ Labels[1].s \in {"AM", "PM"}
        /\ (Labels[1].s = "PM") <=> (rtc.hour >= 12)
        /\ (Labels[1].s = "AM") <=> (rtc.hour < 12)
        /\ Labels[1].y = (IF Labels[1].s = "AM" THEN 55 ELSE 63)

C1_Witness ==
    /\ Drawn
    /\ rtc.hour = 12
    /\ Len(Labels) = 1
    /\ Labels[1].s = "PM"

(***************************************************************************)
(* C2: for every hour24 in 0..23 the 12-hour value draw_cb computes and    *)
(* displays is 12 when hour24 is 0 or 12 and hour24 % 12 otherwise, so it  *)
(* is always in 1..12 (13 -> 1, 23 -> 11).                                 *)
(***************************************************************************)
Expected12 == IF rtc.hour \in {0, 12} THEN 12 ELSE rtc.hour % 12

\* the two hour fields of the frame show the hour hh, without a leading zero
ShowsHour(hh) ==
    /\ Shows(xH0, IF hh < 10 THEN -1 ELSE hh \div 10)
    /\ Shows(xH1, hh % 10)

C2_TwelveHourValue ==
    /\ H12(rtc) = Expected12
    /\ H12(rtc) \in 1 .. 12
    /\ rtc.hour = 13 => H12(rtc) = 1
    /\ rtc.hour = 23 => H12(rtc) = 11
    /\ DrawingsDiffer
    /\ Drawn => ShowsHour(Expected12)

C2_Witness ==
    /\ Drawn
    /\ rtc.hour = 13
    /\ ShowsHour(1)

(***************************************************************************)
(* C3: the hour-tens digit given to segdigit is blank (-1) exactly for     *)
(* hour24 in 1..9 and 13..21 and is 1 exactly for hour24 in                *)
(* {0, 10, 11, 12, 22, 23}, never 0 and never more than 1; hour-ones,      *)
(* minute-tens and minute-ones are digits 0..9, never blank.               *)
(***************************************************************************)
C3_HourTensBlanking ==
    /\ (ht(rtc) = -1) <=> (rtc.hour \in BlankHours)
    /\ (ht(rtc) = 1) <=> (rtc.hour \in OneHours)
    /\ ht(rtc) \in {-1, 1}
    /\ ho(rtc) \in 0 .. 9
    /\ mt(rtc) \in 0 .. 9
    /\ mo(rtc) \in 0 .. 9
    /\ DrawingsDiffer
    /\ Drawn =>
          /\ Shows(xH0, IF rtc.hour \in BlankHours THEN -1 ELSE 1)
          /\ Shows(xH1, Expected12 % 10)
          /\ Shows(xM0, rtc.minute \div 10)
          /\ Shows(xM1, rtc.minute % 10)

C3_Witness ==
    /\ Drawn
    /\ rtc.hour = 21
    /\ BoxesAt(xH0) = <<>>
    /\ Shows(xH1, 9)

(***************************************************************************)
(* C4: the number of outlined progress cells is second / 10 (truncating)   *)
(* clamped to [0,5]: none for second 0..9, one for 10..19, five for 59;    *)
(* they are the first cells of the column from the top, cell i at          *)
(* y = 2 + 9*i, each an unfilled outline.                                  *)
(***************************************************************************)
\* the clamp, for every value a uint8_t second can hold
ClampedForAnySecond ==
    \A sec \in 0 .. 255 :
        count(Time(0, 0, sec)) = (IF sec >= 50 THEN 5 ELSE sec \div 10)

C4_ProgressCells ==
    /\ ClampedForAnySecond
    /\ Drawn =>
          /\ Len(Cells) \in 0 .. 5
          /\ 10 * Len(Cells) <= rtc.second
          /\ rtc.second < 10 * Len(Cells) + 10
          /\ rtc.second \in 0 .. 9 => Len(Cells) = 0
          /\ rtc.second \in 10 .. 19 => Len(Cells) = 1
          /\ rtc.second = 59 => Len(Cells) = 5
          /\ \A i \in 1 .. Len(Cells) :
                Cells[i] = [op |-> "frame", x |-> 117, y |-> 2 + 9 * (i - 1),
                            w |-> 6, h |-> 8, s |-> ""]
          /\ \A r \in Range(Boxes) : r.x + r.w <= 114

C4_Witness ==
    /\ Drawn
    /\ rtc.second = 59
    /\ Len(Cells) = 5
    /\ Cells[5].y = 38

(***************************************************************************)
(* C5: for every digit 0..9 segdigit draws exactly one filled rectangle    *)
(* per segment lit in the canonical seven-segment pattern of the digit and *)
(* none for an unlit segment; for -1 and any other value outside 0..9 it   *)
(* draws nothing.                                                          *)
(***************************************************************************)
\* the traditional seven-segment alphabet
Canonical(d) ==
    CASE d = 0 -> {"a", "b", "c", "d", "e", "f"}
      [] d = 1 -> {"b", "c"}
      [] d = 2 -> {"a", "b", "d", "e", "g"}
      [] d = 3 -> {"a", "b", "c", "d", "g"}
      [] d = 4 -> {"b", "c", "f", "g"}
      [] d = 5 -> {"a", "c", "d", "f", "g"}
      [] d = 6 -> {"a", "c", "d", "e", "f", "g"}
      [] d = 7 -> {"a", "b", "c"}
      [] d = 8 -> {"a", "b", "c", "d", "e", "f", "g"}
      [] d = 9 -> {"a", "b", "c", "d", "f", "g"}

\* where each segment of a 23 x 60 digit with stroke 7 at (xx, 2) lies
SegmentBox(sn, xx) ==
    CASE sn = "a" -> Box(xx, 2, 23, 7)
      [] sn = "g" -> Box(xx, 29, 23, 7)
      [] sn = "d" -> Box(xx, 55, 23, 7)
      [] sn = "f" -> Box(xx, 2, 7, 30)
      [] sn = "b" -> Box(xx + 16, 2, 7, 30)
      [] sn = "e" -> Box(xx, 32, 7, 30)
      [] sn = "c" -> Box(xx + 16, 32, 7, 30)

C5_CanonicalSegments ==
    call.made =>
        IF call.d \in 0 .. 9
        THEN /\ Range(frame) = { SegmentBox(sn, call.x) : sn \in Canonical(call.d) }
             /\ Len(frame) = Cardinality(Canonical(call.d))
        ELSE frame = <<>>

C5_Witness ==
    /\ call.made
    /\ call.d = 1
    /\ Range(frame) = { SegmentBox("b", call.x), SegmentBox("c", call.x) }

(***************************************************************************)
(* C9 as claimed: every lit vertical segment is stroke wide and half the   *)
(* element height tall, at x or at x + w - stroke, and meets the middle    *)
(* bar without gap or overlap: it shares no pixel row with the lit middle  *)
(* bar and no unlit row lies between them.                                 *)
(***************************************************************************)
Verticals  == { r \in Range(frame) : r.w = 7 }
MiddleBars == { r \in Range(frame) : r.w = 23 /\ r.y # 2 /\ r.y # 55 }

Rows(r) == r.y .. (r.y + r.h - 1)

VerticalShape(r) ==
    /\ r.w = 7
    /\ 2 * r.h = 60
    /\ r.x \in {call.x, call.x + 23 - 7}

\* the rows run into each other: no row between the two is left out
NoRowBetween(r1, r2) ==
    LET rows == Rows(r1) \cup Rows(r2)
    IN  \A k \in rows : \A n \in rows : \A j \in k .. n : j \in rows

C9_NoGapNoOverlap ==
    (call.made /\ call.d \in 0 .. 9) =>
        \A v \in Verticals :
            /\ VerticalShape(v)
            /\ \A g \in MiddleBars :
                  /\ Rows(v) \cap Rows(g) = {}
                  /\ NoRowBetween(v, g)

(***************************************************************************)
(* C9 as amended: every lit vertical segment is stroke wide and half the   *)
(* element height tall, at x or at x + w - stroke; the upper ones cover    *)
(* the rows of the upper half and the lower ones the rows of the lower     *)
(* half, so the two halves meet without gap or overlap; no unlit row lies  *)
(* between a vertical segment and the lit middle bar, which they overlap:  *)
(* the upper ones in its first stroke / 2 = 3 rows, the lower ones in its  *)
(* other 4 rows.                                                           *)
(***************************************************************************)
C9_HalvesMeetBarOverlaps ==
    (call.made /\ call.d \in 0 .. 9) =>
        \A v \in Verticals :
            /\ VerticalShape(v)
            /\ Rows(v) = 2 .. 31 \/ Rows(v) = 32 .. 61
            /\ \A g \in MiddleBars :
                  /\ NoRowBetween(v, g)
                  /\ Rows(g) = 29 .. 35
                  /\ Rows(v) \cap Rows(g) =
                        (IF v.y = 2 THEN 29 .. 31 ELSE 32 .. 35)

C9_Witness ==
    /\ call.made
    /\ call.d = 4
    /\ Cardinality(Verticals) = 3
    /\ Cardinality(MiddleBars) = 1

(***************************************************************************)
(* C6: when the fit check fails (the right edge xM1 + w of the minute-ones *)
(* box exceeds the left edge of the gutter) the frame holds the 3x3 filled *)
(* square at (0,0) and no digit segment and no colon dot; when it passes,  *)
(* the four digit fields and the colon are drawn and the marker is not.    *)
(* The progress column and the meridiem label are drawn in both cases.     *)
(***************************************************************************)
GutterLeft == canvas_w - 2 - 12

ColonDots == << Box(53, 18, 6, 6), Box(53, 42, 6, 6) >>

C6_FallbackMarker ==
    Drawn =>
        /\ IF 110 > GutterLeft
           THEN Boxes = << Marker >>
           ELSE /\ Marker \notin Range(Boxes)
                /\ Shows(xH0, ht(rtc))
                /\ Shows(xH1, ho(rtc))
                /\ Shows(xM0, mt(rtc))
                /\ Shows(xM1, mo(rtc))
                /\ SelectSeq(Boxes, LAMBDA r : r.x = 53) = ColonDots
        /\ Len(Cells) = rtc.second \div 10
        /\ \A i \in 1 .. Len(Cells) :
              /\ Cells[i].x = GutterLeft + 3
              /\ Cells[i].y = 2 + 9 * (i - 1)
        /\ Len(Labels) = 1
        /\ Labels[1].s = (IF rtc.hour >= 12 THEN "PM" ELSE "AM")
        /\ Labels[1].x = GutterLeft + 1

C6_Witness ==
    /\ Drawn
    /\ canvas_w = 123
    /\ rtc = Time(15, 47, 52)
    /\ Boxes = << Marker >>
    /\ Len(Cells) = 5
    /\ Len(Labels) = 1

(***************************************************************************)
(* C7: with the shipped constants (128 x 64) the layout is valid in every  *)
(* frame: the right edge of the minute-ones box is strictly left of the    *)
(* gutter (the fallback marker is never drawn), every rectangle drawn has  *)
(* non-negative coordinates and lies inside the canvas, and the four digit *)
(* boxes, the colon and the progress column do not overlap pairwise, the   *)
(* progress cells lying inside the gutter.                                 *)
(***************************************************************************)
\* the horizontal extents [from, to) of the four digit boxes and the colon
FieldExtents ==
    << <<xH0, xH0 + w>>, <<xH1, xH1 + w>>, <<cx, cx + colon_w>>,
       <<xM0, xM0 + w>>, <<xM1, xM1 + w>> >>

\* the horizontal extents of the progress column and of the gutter
ColumnExtent == << bx(canvas_w), bx(canvas_w) + bar_w >>
GutterExtent == << 128 - 2 - 12, 128 - 2 >>

Inside(r, ext) == ext[1] <= r.x /\ r.x + r.w <= ext[2]

\* each field ends before the next begins, the last before the gutter
FieldsApart ==
    /\ \A i \in 1 .. 4 : FieldExtents[i][2] <= FieldExtents[i + 1][1]
    /\ FieldExtents[1][1] >= 0
    /\ FieldExtents[5][2] < GutterExtent[1]

C7_LayoutValid ==
    /\ canvas_w = 128
    /\ xM1 + w < canvas_w - 2 - 12
    /\ FieldsApart
    /\ GutterExtent[1] <= ColumnExtent[1]
    /\ ColumnExtent[2] <= GutterExtent[2]
    /\ Drawn =>
          /\ Marker \notin Range(Boxes)
          /\ \A r \in Range(Boxes) \cup Range(Cells) :
                /\ r.x >= 0 /\ r.y >= 0
                /\ r.w > 0 /\ r.h > 0
                /\ r.x + r.w <= 128
                /\ r.y + r.h <= 64
          /\ \A r \in Range(Boxes) : \E i \in 1 .. 5 : Inside(r, FieldExtents[i])
          /\ \A r \in Range(Cells) : Inside(r, ColumnExtent)

C7_Witness ==
    /\ Drawn
    /\ rtc = Time(10, 8, 59)
    /\ Len(Boxes) = 2 + 6 + 2 + 6 + 7
    /\ Len(Cells) = 5

(***************************************************************************)
(* C8: the run loop of bigclock_app ends when and only when the event it   *)
(* takes from the input queue is a short press of Back; any other event    *)
(* (another key, or Back pressed long, repeated, released or pressed) is   *)
(* consumed and ignored: the application keeps running, its timer active   *)
(* and nothing torn down, whatever the sequence of input events.           *)
(***************************************************************************)
BackShort == [key |-> "InputKeyBack", type |-> "InputTypeShort"]

BeforeLoop == { "queue_alloc", "view_port_alloc", "gui_add_view_port",
                "backlight_on", "timer_alloc", "timer_start" }

NothingTornDown ==
    /\ timer = "running"
    /\ vp = "added"
    /\ q = "alloc"
    /\ gui
    /\ notif
    /\ backlight = "enforce_on"
    /\ display = "override"
    /\ retval = -1

\* the loop is left only with a short press of Back in `event`; while the
\* application is in its loop everything it set up is in place
C8_LoopState ==
    /\ pc \notin BeforeLoop \cup {"loop"} => event = BackShort
    /\ pc = "loop" => (NothingTornDown /\ event # BackShort)

\* a step of the loop takes the head of the queue, leaves the loop iff that
\* is a short press of Back, and otherwise changes nothing else
C8_LoopStep ==
    (pc = "loop" /\ (pc' # "loop" \/ Len(queue') < Len(queue))) =>
        /\ queue # <<>>
        /\ event' = Head(queue)
        /\ queue' = Tail(queue)
        /\ (pc' # "loop") <=> (Head(queue) = BackShort)
        /\ UNCHANGED <<q, vp, gui, notif, backlight, display, timer, retval,
                       redraw, frame>>

C8_ExitOnlyOnBackShort == [] C8_LoopState /\ [][C8_LoopStep]_vars

C8_Witness ==
    /\ pc = "loop"
    /\ event = [key |-> "InputKeyBack", type |-> "InputTypeLong"]
    /\ queue = << [key |-> "InputKeyOk", type |-> "InputTypeShort"] >>
    /\ NothingTornDown

(***************************************************************************)
(* C10: whatever the interleaving of timer ticks, draw callbacks and input *)
(* events, a tick only requests a redraw of the view port (it draws        *)
(* nothing and leaves the input queue alone), ticks keep firing until      *)
(* shutdown, and on exit the timer is stopped and freed before the view    *)
(* port is removed and freed, so that no redraw is requested on a freed    *)
(* view port.                                                              *)
(***************************************************************************)
C10_TimerState ==
    /\ pc \in {"loop", "timer_stop"} => timer = "running"
    /\ timer = "running" => vp = "added"
    /\ vp \in {"removed", "freed"} => timer = "freed"
    /\ ~uaf

C10_TickStep ==
    TickCb =>
        /\ redraw'
        /\ UNCHANGED <<pc, q, queue, vp, gui, notif, backlight, display, timer,
                       event, retval, uaf, rtc, canvas_w, call, frame>>

\* only draw_cb draws
C10_DrawStep == frame' # frame => DrawCb

C10_TimerShutdownStep ==
    /\ timer' = "freed" => timer \in {"stopped", "freed"}
    /\ (vp = "added" /\ vp' # "added") => timer = "freed"

C10_TickOnlyRequestsRedraw ==
    [] C10_TimerState
    /\ [][C10_TickStep /\ C10_DrawStep /\ C10_TimerShutdownStep]_vars

C10_Witness ==
    /\ pc = "loop"
    /\ timer = "running"
    /\ Drawn
    /\ redraw
    /\ queue # <<>>

=============================================================================
